---- MODULE Spec2Model ----
(***************************************************************************)
(* Command dispatcher of the auto-reply pipeline (handleCommands) and the  *)
(* group activation parser, modelled as a state machine.                   *)
(*                                                                         *)
(* A message body is a sequence of lexemes: slash tokens ("/help"),        *)
(* alphabetic words ("mention"), the blank " " and the colon ":".  The     *)
(* string the program sees is the concatenation of the lexemes, so string  *)
(* equality is equality of lexeme sequences, and the regular expressions   *)
(* of the source are evaluated on the character classes at the lexeme      *)
(* borders.                                                                *)
(***************************************************************************)
EXTENDS Integers, Sequences, FiniteSets, TLC

\* ---------------------------------------------------------------- bounds
\* Largest value Date.now() returns in a behaviour.
MaxClock == 1
\* Largest compactionCount a behaviour reaches.
MaxCompactions == 1
\* Granularity of the timer that measures the wait for the embedded run.
TickMs == 7500

\* ------------------------------------------------------------- constants
\* Timeout handed to waitForEmbeddedPiRunEnd.
WaitTimeoutMs == 15000

\* JavaScript's undefined, for optional fields and an absent reply.
Undefined == "<undefined>"

\* ----------------------------------------------------------------- text
AlphaWords ==
  { "mention", "always", "ALWAYS", "bogus", "on", "off", "inherit", "maybe",
    "now", "please", "focus", "stop", "STOP", "hello", "x" }

\* String.prototype.toLowerCase on one lexeme.
LowerLexeme(l) ==
  CASE l = "/RESET" -> "/reset"
    [] l = "/HELP" -> "/help"
    [] l = "/V" -> "/v"
    [] l = "/Activation" -> "/activation"
    [] l = "ALWAYS" -> "always"
    [] l = "STOP" -> "stop"
    [] OTHER -> l

toLowerCase(s) == [i \in DOMAIN s |-> LowerLexeme(s[i])]

\* \s of the regular expressions.
IsSpace(l) == l = " "

\* A lexeme whose first character is a word character (\w).
StartsWithWordChar(l) == l \in AlphaWords

RECURSIVE trimStart(_)
trimStart(s) ==
  IF s # <<>> /\ IsSpace(Head(s)) THEN trimStart(Tail(s)) ELSE s

RECURSIVE trimEnd(_)
trimEnd(s) ==
  IF s # <<>> /\ IsSpace(s[Len(s)]) THEN trimEnd(SubSeq(s, 1, Len(s) - 1)) ELSE s

\* String.prototype.trim
trim(s) == trimEnd(trimStart(s))

\* String.prototype.startsWith for a prefix given as lexemes.
startsWith(s, prefix) ==
  /\ Len(s) >= Len(prefix)
  /\ SubSeq(s, 1, Len(prefix)) = prefix

\* normalizeGroupActivation: trim, lower-case, accept the two modes.
\* An undefined argument is the empty sequence (no capture).
normalizeGroupActivation(raw) ==
  LET value == toLowerCase(trim(raw)) IN
  IF value = <<"mention">> THEN "mention"
  ELSE IF value = <<"always">> THEN "always"
  ELSE Undefined

\* Capture group of (?:\s+([a-zA-Z]+))? applied to what follows a command
\* token: one or more blanks and then a run of letters; the empty sequence
\* when the group did not take part in the match.
ModeCapture(rest) ==
  LET afterSpace == trimStart(rest) IN
  IF rest # <<>> /\ IsSpace(Head(rest))
     /\ afterSpace # <<>> /\ Head(afterSpace) \in AlphaWords
  THEN <<Head(afterSpace)>>
  ELSE <<>>

\* The command token `token` at the start of `trimmed`, case-insensitively,
\* followed by a word boundary: /^\/token\b/i.
TokenAtStart(trimmed, token) ==
  /\ trimmed # <<>>
  /\ LowerLexeme(Head(trimmed)) = token
  /\ (Len(trimmed) = 1 \/ ~StartsWithWordChar(trimmed[2]))

parseActivationCommand(raw) ==
  IF raw = <<>> THEN [hasCommand |-> FALSE, mode |-> Undefined]
  ELSE LET trimmed == trim(raw) IN
       IF trimmed = <<>> THEN [hasCommand |-> FALSE, mode |-> Undefined]
       ELSE IF ~TokenAtStart(trimmed, "/activation")
            THEN [hasCommand |-> FALSE, mode |-> Undefined]
            ELSE [hasCommand |-> TRUE,
                  mode |-> normalizeGroupActivation(ModeCapture(Tail(trimmed)))]

\* normalizeSendPolicy of the /send parser: on|off|inherit to allow|deny|inherit.
normalizeSendPolicyMode(raw) ==
  LET value == toLowerCase(trim(raw)) IN
  IF value = <<"on">> THEN "allow"
  ELSE IF value = <<"off">> THEN "deny"
  ELSE IF value = <<"inherit">> THEN "inherit"
  ELSE Undefined

parseSendPolicyCommand(raw) ==
  IF raw = <<>> THEN [hasCommand |-> FALSE, mode |-> Undefined]
  ELSE LET trimmed == trim(raw) IN
       IF trimmed = <<>> THEN [hasCommand |-> FALSE, mode |-> Undefined]
       ELSE IF ~TokenAtStart(trimmed, "/send")
            THEN [hasCommand |-> FALSE, mode |-> Undefined]
            ELSE [hasCommand |-> TRUE,
                  mode |-> normalizeSendPolicyMode(ModeCapture(Tail(trimmed)))]

\* Trigger phrases of the abort check.
AbortTriggers == { <<"stop">>, <<"abort">> }

isAbortTrigger(text) == toLowerCase(trim(text)) \in AbortTriggers

\* Canonical E.164 form of a sender identity: the whatsapp: prefix and every
\* character that is neither a digit nor "+" are dropped, one leading "+".
normalizeE164(number) ==
  LET kept == SelectSeq(number, LAMBDA l : l \notin {"whatsapp:", "-", " "})
      digits == SelectSeq(kept, LAMBDA l : l # "+")
  IN <<"+">> \o digits

\* Tokens of CONTROL_COMMAND_RE, in lower case.
ControlTokens ==
  { "/status", "/help", "/thinking", "/think", "/t", "/verbose", "/v",
    "/elevated", "/elev", "/model", "/queue", "/activation", "/send",
    "/restart", "/reset", "/new", "/compact" }

\* /(?:^|\s)\/(?:status|...|compact)(?=$|\s|:)\b/i .test(text): a token
\* after the start or a blank, before the end, a blank or a colon (where
\* the closing \b holds, the token ending in a letter).
CONTROL_COMMAND_RE(text) ==
  \E i \in DOMAIN text :
    /\ LowerLexeme(text[i]) \in ControlTokens
    /\ (i = 1 \/ IsSpace(text[i - 1]))
    /\ (i = Len(text) \/ IsSpace(text[i + 1]) \/ text[i + 1] = ":")

CONTROL_COMMAND_EXACT ==
  { <<"/help">>, <<"/status">>, <<"/restart">>, <<"/activation">>,
    <<"/send">>, <<"/reset">>, <<"/new">>, <<"/compact">> }

\* hasControlCommand(text); an absent text is the empty text.
hasControlCommand(txt) ==
  IF txt = <<>> THEN FALSE
  ELSE LET trimmed == trim(txt) IN
       IF trimmed = <<>> THEN FALSE
       ELSE LET lowered == toLowerCase(trimmed) IN
            IF lowered \in CONTROL_COMMAND_EXACT THEN TRUE
            ELSE CONTROL_COMMAND_RE(txt)

\* --------------------------------------------------------------- inputs
\* commandBodyNormalized of the messages dispatched.
Bodies ==
  { <<"hello">>,
    <<"/reset">>, <<"/new">>, <<"/reset", " ", "now">>,
    <<"/activation">>, <<"/activation", " ", "mention">>,
    <<"/Activation", " ", "ALWAYS">>, <<"/activation", " ", "bogus">>,
    <<"/activation", "x">>, <<"/activation", " ", "always", " ", "/help">>,
    <<"/send">>, <<"/send", " ", "on">>, <<"/send", " ", "off">>,
    <<"/send", " ", "inherit">>, <<"/send", " ", "maybe">>,
    <<"/restart">>, <<"/restart", " ", "/help">>,
    <<"/help">>, <<"please", " ", "/help", " ", "now">>,
    <<"/status">>, <<"/status", " ", "/compact">>,
    <<"/compact">>, <<"/compact", " ", "focus">>, <<"/compact", ":", "focus">>,
    <<"/compact", " ", "/help">>,
    <<"stop">>, <<" ", "STOP", " ">> }

\* rawBodyNormalized differs from commandBodyNormalized when a mention was
\* stripped for the commands.
Mentioned(body) == <<"@bot", " ">> \o body

Owner == <<"+", "15550001">>

\* senderE164 of the command context: absent, the owner written without
\* the leading "+", and somebody else.
Senders == { <<>>, <<"15550001">>, <<"+", "15550002">> }

OwnerLists == { <<>>, <<Owner>> }

\* The command context and the per-message parameters of one call.  Facts
\* are enumerated where handleCommands reads them: isGroup and the owner
\* facts (surface, owner list) by the /activation branch, the sender
\* identity by its owner check on an owner-scoped surface.
Requests ==
  { r \in [ body : Bodies,
            rawBody : Bodies \cup {Mentioned(<<"stop">>)},
            isAuthorizedSender : BOOLEAN,
            hasStatusDirective : BOOLEAN,
            isGroup : BOOLEAN,
            isWhatsAppSurface : BOOLEAN,
            ownerList : OwnerLists,
            senderE164 : Senders ] :
      /\ r.rawBody \in {r.body, Mentioned(r.body)}
      /\ r.isGroup => parseActivationCommand(r.body).hasCommand
      /\ (r.isWhatsAppSurface \/ r.ownerList # <<>>)
           => (r.isGroup /\ ~r.hasStatusDirective)
      /\ r.senderE164 # <<>> => (r.isWhatsAppSurface /\ r.ownerList # <<>>) }

NoRequest ==
  [ body |-> <<>>, rawBody |-> <<>>, isAuthorizedSender |-> FALSE, hasStatusDirective |-> FALSE,
    isGroup |-> FALSE, isWhatsAppSurface |-> FALSE, ownerList |-> <<>>,
    senderE164 |-> <<>> ]

\* Which optional parameters the caller supplies, whether the entry carries
\* a sessionId, and whether the context has a sender address (from / to).
\* A caller that has a session key has the conversation's address; the
\* store path is read only after sessionEntry && sessionStore && sessionKey.
ParamSets ==
  { p \in [ sessionEntry : BOOLEAN, sessionStore : BOOLEAN,
            sessionKey : BOOLEAN, storePath : BOOLEAN,
            sessionId : BOOLEAN, from : BOOLEAN ] :
      /\ p.sessionId => p.sessionEntry
      /\ p.sessionKey => p.from
      /\ p.storePath => (p.sessionEntry /\ p.sessionStore /\ p.sessionKey) }

SessionKey == "agent:main"
OtherKey == "agent:other"
SessionId == "sid-1"
From == "+15550009"

\* ---------------------------------------------------------------- state
VARIABLES
  params,       \* the optional parameters supplied with every call
  entry,        \* the sessionEntry object
  sessionStore, \* the in-memory session store
  disk,         \* the session store as last saved
  abortMemory,  \* keys whose abort memory is true
  run,          \* embedded run of SessionId: "none", "active", "aborting"
  now,          \* last value returned by Date.now()
  pc,           \* position of the dispatcher
  req,          \* the request being dispatched
  result,       \* the value handleCommands returned
  calls,        \* collaborator calls of the current dispatch, in order
  pre,          \* entry, store, disk, abort memory, run when the dispatch began
  waited,       \* milliseconds spent in waitForEmbeddedPiRunEnd
  waitOutcome,  \* how the wait resolved: "ended", "timeout" or "none"
  sendPolicy,   \* the ambient decision evaluated at the end, or "none"
  compactResult,\* what the compaction collaborator reported, or "none"
  runAtCompact, \* the run's state when the collaborator was called, or "n/a"
  controlText,  \* the text handed to hasControlCommand
  detected      \* what hasControlCommand returned for it: {} before the call

vars ==
  << params, entry, sessionStore, disk, abortMemory, run, now, pc, req,
     result, calls, pre, waited, waitOutcome, sendPolicy, compactResult,
     runAtCompact, controlText, detected >>

NewEntry(p) ==
  [ sessionId |-> IF p.sessionId THEN SessionId ELSE Undefined,
    groupActivation |-> Undefined,
    groupActivationNeedsSystemIntro |-> FALSE,
    sendPolicy |-> Undefined,
    abortedLastRun |-> FALSE,
    compactionCount |-> 0,
    updatedAt |-> 0 ]

OtherEntry ==
  [ sessionId |-> "sid-2", groupActivation |-> "always",
    groupActivationNeedsSystemIntro |-> FALSE, sendPolicy |-> "deny",
    abortedLastRun |-> FALSE, compactionCount |-> 0, updatedAt |-> 0 ]

\* sessionStore[key] = value
StorePut(store, key, value) ==
  [ k \in (DOMAIN store) \cup {key} |-> IF k = key THEN value ELSE store[k] ]

InitialStore(p) ==
  IF p.sessionEntry /\ p.sessionStore /\ p.sessionKey
  THEN (SessionKey :> NewEntry(p)) @@ (OtherKey :> OtherEntry)
  ELSE (OtherKey :> OtherEntry)

Snapshot ==
  [ entry |-> entry, sessionStore |-> sessionStore, disk |-> disk,
    abortMemory |-> abortMemory, run |-> run ]

NoResult == [ reply |-> Undefined, shouldContinue |-> FALSE ]

Init ==
  /\ params \in ParamSets
  /\ entry = NewEntry(params)
  /\ sessionStore = InitialStore(params)
  /\ disk = InitialStore(params)
  /\ abortMemory = {}
  /\ run = "none"
  /\ now = 0
  /\ pc = "idle"
  /\ req = NoRequest
  /\ result = NoResult
  /\ calls = <<>>
  /\ pre = Snapshot
  /\ waited = 0
  /\ waitOutcome = "none"
  /\ sendPolicy = "none"
  /\ compactResult = "none"
  /\ runAtCompact = "n/a"
  /\ controlText = <<>>
  /\ detected = {}

\* ----------------------------------------------------------- dispatcher
Reply(text) == [ reply |-> text, shouldContinue |-> FALSE ]
SilentDrop == [ reply |-> Undefined, shouldContinue |-> FALSE ]
Continue == [ reply |-> Undefined, shouldContinue |-> TRUE ]

\* What one synchronous stretch of handleCommands leaves behind: the value
\* returned and the state written.  Unchanged is the stretch that wrote
\* nothing.  A branch is the set of its possible outcomes: one, unless it
\* reads the clock or the configured send policy.
Unchanged ==
  [ result |-> NoResult, entry |-> entry, sessionStore |-> sessionStore,
    disk |-> disk, abortMemory |-> abortMemory, run |-> run, now |-> now,
    calls |-> <<>>, pc |-> "done", sendPolicy |-> "none" ]

Returns(res, made) == { [ Unchanged EXCEPT !.result = res, !.calls = made ] }

\* The values Date.now() can return: the clock does not go back.
DateNow == now..MaxClock

\* return { shouldContinue: false } after logVerbose("Ignoring ...").
Ignoring == Returns(SilentDrop, <<"logVerbose">>)

\* sessionEntry && sessionStore && sessionKey
HasSession == params.sessionEntry /\ params.sessionStore /\ params.sessionKey

\* abortKey of the command context: sessionKey ?? from ?? to.
abortKey ==
  IF params.sessionKey THEN SessionKey
  ELSE IF params.from THEN From
  ELSE Undefined

\* PutAndSave that leaves updatedAt as it was.
PutAndSaveKeepsTime(changed, res) ==
  { LET store == StorePut(sessionStore, SessionKey, changed)
    IN [ Unchanged EXCEPT
           !.result = res,
           !.entry = changed,
           !.sessionStore = store,
           !.disk = IF params.storePath THEN store ELSE disk,
           !.now = t,
           !.calls = IF params.storePath THEN <<"saveSessionStore">> ELSE <<>> ]
    : t \in DateNow }

\* PutAndSave that puts the entry in the store and does not save the store.
PutWithoutSave(changed, res) ==
  { LET e == [changed EXCEPT !.updatedAt = t]
        store == StorePut(sessionStore, SessionKey, e)
    IN [ Unchanged EXCEPT
           !.result = res,
           !.entry = e,
           !.sessionStore = store,
           !.now = t ]
    : t \in DateNow }

\* The tail shared by the mutating commands: the changed entry gets
\* updatedAt = Date.now(), is put in the store under the session key, and
\* the store is saved when a store path was supplied.
PutAndSave(changed, res) ==
  { LET e == [changed EXCEPT !.updatedAt = t]
        store == StorePut(sessionStore, SessionKey, e)
    IN [ Unchanged EXCEPT
           !.result = res,
           !.entry = e,
           !.sessionStore = store,
           !.disk = IF params.storePath THEN store ELSE disk,
           !.now = t,
           !.calls = IF params.storePath THEN <<"saveSessionStore">> ELSE <<>> ]
    : t \in DateNow }

resetRequested(r) == r.body = <<"/reset">> \/ r.body = <<"/new">>

activationSenderE164(r) ==
  IF r.senderE164 # <<>> THEN normalizeE164(r.senderE164) ELSE <<>>

\* isActivationOwner comparing the sender identity as received, not
\* normalized.
isActivationOwnerRaw(r) ==
  IF ~r.isWhatsAppSurface \/ Len(r.ownerList) = 0
  THEN r.isAuthorizedSender
  ELSE /\ r.senderE164 # <<>>
       /\ \E i \in DOMAIN r.ownerList : r.ownerList[i] = r.senderE164

isActivationOwner(r) ==
  IF ~r.isWhatsAppSurface \/ Len(r.ownerList) = 0
  THEN r.isAuthorizedSender
  ELSE /\ activationSenderE164(r) # <<>>
       /\ \E i \in DOMAIN r.ownerList : r.ownerList[i] = activationSenderE164(r)

ActivationDenied(r) ==
  \/ ~r.isAuthorizedSender
  \/ (r.isWhatsAppSurface /\ ~isActivationOwner(r))

\* ActivationBranch that records the mode and forgets the system intro flag.
ActivationBranchNoIntro(r) ==
  LET activationCommand == parseActivationCommand(r.body) IN
  IF ~r.isGroup
  THEN Returns(Reply("Group activation only applies to group chats."), <<>>)
  ELSE IF ActivationDenied(r) THEN Ignoring
  ELSE IF activationCommand.mode = Undefined
  THEN Returns(Reply("Usage: /activation mention|always"), <<>>)
  ELSE LET res == Reply("Group activation set to " \o activationCommand.mode \o ".") IN
       IF HasSession
       THEN PutAndSave([entry EXCEPT
                          !.groupActivation = activationCommand.mode], res)
       ELSE Returns(res, <<>>)

\* ActivationBranch with the authorization check ahead of the group check.
ActivationBranchAuthFirst(r) ==
  LET activationCommand == parseActivationCommand(r.body) IN
  IF ActivationDenied(r) THEN Ignoring
  ELSE IF ~r.isGroup
  THEN Returns(Reply("Group activation only applies to group chats."), <<>>)
  ELSE IF activationCommand.mode = Undefined
  THEN Returns(Reply("Usage: /activation mention|always"), <<>>)
  ELSE LET res == Reply("Group activation set to " \o activationCommand.mode \o ".") IN
       IF HasSession
       THEN PutAndSave([entry EXCEPT
                          !.groupActivation = activationCommand.mode,
                          !.groupActivationNeedsSystemIntro = TRUE], res)
       ELSE Returns(res, <<>>)

ActivationBranch(r) ==
  LET activationCommand == parseActivationCommand(r.body) IN
  IF ~r.isGroup
  THEN Returns(Reply("Group activation only applies to group chats."), <<>>)
  ELSE IF ActivationDenied(r) THEN Ignoring
  ELSE IF activationCommand.mode = Undefined
  THEN Returns(Reply("Usage: /activation mention|always"), <<>>)
  ELSE LET res == Reply("Group activation set to " \o activationCommand.mode \o ".") IN
       IF HasSession
       THEN PutAndSave([entry EXCEPT
                          !.groupActivation = activationCommand.mode,
                          !.groupActivationNeedsSystemIntro = TRUE], res)
       ELSE Returns(res, <<>>)

SendPolicyLabel(mode) ==
  IF mode = "inherit" THEN "inherit" ELSE IF mode = "allow" THEN "on" ELSE "off"

\* SendPolicyBranch without the usage reply: a missing mode clears the
\* override like inherit.
SendPolicyBranchNoUsage(r) ==
  LET sendPolicyCommand == parseSendPolicyCommand(r.body) IN
  IF ~r.isAuthorizedSender THEN Ignoring
  ELSE LET mode == IF sendPolicyCommand.mode = Undefined
                   THEN "inherit" ELSE sendPolicyCommand.mode
           res == Reply("Send policy set to " \o SendPolicyLabel(mode) \o ".")
       IN IF HasSession
          THEN PutAndSave([entry EXCEPT
                             !.sendPolicy =
                                IF mode = "inherit" THEN Undefined ELSE mode],
                          res)
          ELSE Returns(res, <<>>)

\* SendPolicyBranch that stores the mode as given, "inherit" included.
SendPolicyBranchStoresInherit(r) ==
  LET sendPolicyCommand == parseSendPolicyCommand(r.body) IN
  IF ~r.isAuthorizedSender THEN Ignoring
  ELSE IF sendPolicyCommand.mode = Undefined
  THEN Returns(Reply("Usage: /send on|off|inherit"), <<>>)
  ELSE LET res == Reply("Send policy set to "
                          \o SendPolicyLabel(sendPolicyCommand.mode) \o ".") IN
       IF HasSession
       THEN PutAndSave([entry EXCEPT !.sendPolicy = sendPolicyCommand.mode], res)
       ELSE Returns(res, <<>>)

SendPolicyBranch(r) ==
  LET sendPolicyCommand == parseSendPolicyCommand(r.body) IN
  IF ~r.isAuthorizedSender THEN Ignoring
  ELSE IF sendPolicyCommand.mode = Undefined
  THEN Returns(Reply("Usage: /send on|off|inherit"), <<>>)
  ELSE LET res == Reply("Send policy set to "
                          \o SendPolicyLabel(sendPolicyCommand.mode) \o ".") IN
       IF HasSession
       THEN PutAndSave([entry EXCEPT
                          !.sendPolicy =
                             IF sendPolicyCommand.mode = "inherit"
                             THEN Undefined
                             ELSE sendPolicyCommand.mode], res)
       ELSE Returns(res, <<>>)

restartRequested(r) ==
  r.body = <<"/restart">> \/ startsWith(r.body, <<"/restart", " ">>)

RestartBranch(r) ==
  IF ~r.isAuthorizedSender THEN Ignoring
  ELSE Returns(Reply("Restarting clawdbot"), <<"triggerClawdbotRestart">>)

\* /(?:^|\s)\/help(?=$|\s|:)\b/i
HelpRegexMatches(body) ==
  \E i \in DOMAIN body :
    /\ LowerLexeme(body[i]) = "/help"
    /\ (i = 1 \/ IsSpace(body[i - 1]))
    /\ (i = Len(body) \/ IsSpace(body[i + 1]) \/ body[i + 1] = ":")

helpRequested(r) == r.body = <<"/help">> \/ HelpRegexMatches(r.body)

\* HelpBranch without its authorization gate.
HelpBranchUngated(r) ==
  Returns(Reply("<help message>"), <<"buildHelpMessage">>)

HelpBranch(r) ==
  IF ~r.isAuthorizedSender THEN Ignoring
  ELSE Returns(Reply("<help message>"), <<"buildHelpMessage">>)

statusRequested(r) ==
  \/ r.hasStatusDirective
  \/ r.body = <<"/status">>
  \/ startsWith(r.body, <<"/status", " ">>)

\* StatusBranch that replies and also lets the message through.
StatusBranchContinues(r) ==
  IF ~r.isAuthorizedSender THEN Ignoring
  ELSE Returns([ reply |-> "<status message>", shouldContinue |-> TRUE ],
               <<"buildStatusMessage">>)

StatusBranch(r) ==
  IF ~r.isAuthorizedSender THEN Ignoring
  ELSE Returns(Reply("<status message>"), <<"buildStatusMessage">>)

compactRequested(r) ==
  r.body = <<"/compact">> \/ startsWith(r.body, <<"/compact", " ">>)

\* isEmbeddedPiRunActive(sessionId)
isEmbeddedPiRunActive == run # "none"

\* CompactBranch that asks only for a session entry, not for its sessionId.
CompactBranchNoIdCheck(r) ==
  IF ~r.isAuthorizedSender THEN Ignoring
  ELSE IF ~params.sessionEntry
  THEN Returns(Reply("Compaction unavailable (missing session id)."), <<>>)
  ELSE IF isEmbeddedPiRunActive
  THEN { [ Unchanged EXCEPT
             !.run = "aborting",
             !.calls = <<"isEmbeddedPiRunActive", "abortEmbeddedPiRun",
                         "waitForEmbeddedPiRunEnd">>,
             !.pc = "waiting" ] }
  ELSE { [ Unchanged EXCEPT
             !.calls = <<"isEmbeddedPiRunActive">>,
             !.pc = "precompact" ] }

\* CompactBranch that signals cancellation and does not await the run's end.
CompactBranchNoWait(r) ==
  IF ~r.isAuthorizedSender THEN Ignoring
  ELSE IF ~params.sessionEntry \/ entry.sessionId = Undefined
  THEN Returns(Reply("Compaction unavailable (missing session id)."), <<>>)
  ELSE IF isEmbeddedPiRunActive
  THEN { [ Unchanged EXCEPT
             !.run = "aborting",
             !.calls = <<"isEmbeddedPiRunActive", "abortEmbeddedPiRun">>,
             !.pc = "precompact" ] }
  ELSE { [ Unchanged EXCEPT
             !.calls = <<"isEmbeddedPiRunActive">>,
             !.pc = "precompact" ] }

\* CompactBranch that awaits the run's end without signalling cancellation.
CompactBranchNoAbort(r) ==
  IF ~r.isAuthorizedSender THEN Ignoring
  ELSE IF ~params.sessionEntry \/ entry.sessionId = Undefined
  THEN Returns(Reply("Compaction unavailable (missing session id)."), <<>>)
  ELSE IF isEmbeddedPiRunActive
  THEN { [ Unchanged EXCEPT
             !.calls = <<"isEmbeddedPiRunActive", "waitForEmbeddedPiRunEnd">>,
             !.pc = "waiting" ] }
  ELSE { [ Unchanged EXCEPT
             !.calls = <<"isEmbeddedPiRunActive">>,
             !.pc = "precompact" ] }

\* The synchronous head of the /compact branch, up to its first await.
CompactBranch(r) ==
  IF ~r.isAuthorizedSender THEN Ignoring
  ELSE IF ~params.sessionEntry \/ entry.sessionId = Undefined
  THEN Returns(Reply("Compaction unavailable (missing session id)."), <<>>)
  ELSE IF isEmbeddedPiRunActive
  THEN { [ Unchanged EXCEPT
             !.run = "aborting",
             !.calls = <<"isEmbeddedPiRunActive", "abortEmbeddedPiRun",
                         "waitForEmbeddedPiRunEnd">>,
             !.pc = "waiting" ] }
  ELSE { [ Unchanged EXCEPT
             !.calls = <<"isEmbeddedPiRunActive">>,
             !.pc = "precompact" ] }

abortRequested(r) == isAbortTrigger(r.rawBody)

\* AbortBranch behind the authorization gate of the other commands.
AbortBranchGated(r) ==
  LET res == Reply("Agent was aborted.") IN
  IF ~r.isAuthorizedSender THEN Ignoring
  ELSE IF HasSession
  THEN PutAndSave([entry EXCEPT !.abortedLastRun = TRUE], res)
  ELSE IF abortKey # Undefined
  THEN { [ Unchanged EXCEPT
             !.result = res,
             !.abortMemory = abortMemory \cup {abortKey},
             !.calls = <<"setAbortMemory">> ] }
  ELSE Returns(res, <<>>)

AbortBranch(r) ==
  LET res == Reply("Agent was aborted.") IN
  IF HasSession
  THEN PutAndSave([entry EXCEPT !.abortedLastRun = TRUE], res)
  ELSE IF abortKey # Undefined
  THEN { [ Unchanged EXCEPT
             !.result = res,
             !.abortMemory = abortMemory \cup {abortKey},
             !.calls = <<"setAbortMemory">> ] }
  ELSE Returns(res, <<>>)

\* resolveSendPolicy: the override of the session entry when it has one,
\* the decision the configuration gives otherwise.
resolveSendPolicy(configured) ==
  IF params.sessionEntry /\ entry.sendPolicy \in {"allow", "deny"}
  THEN entry.sendPolicy
  ELSE configured

\* The decisions the configuration can give.
ConfiguredPolicies == {"allow", "deny"}

\* SendPolicyGate that evaluates the decision and lets the message through
\* whatever it is.
SendPolicyGateIgnoresDeny ==
  { [ Unchanged EXCEPT !.result = Continue,
                       !.sendPolicy = resolveSendPolicy(configured),
                       !.calls = <<"resolveSendPolicy">> ]
    : configured \in ConfiguredPolicies }

SendPolicyGate ==
  { LET decision == resolveSendPolicy(configured) IN
    IF decision = "deny"
    THEN [ Unchanged EXCEPT !.result = SilentDrop, !.sendPolicy = decision,
                            !.calls = <<"resolveSendPolicy", "logVerbose">> ]
    ELSE [ Unchanged EXCEPT !.result = Continue, !.sendPolicy = decision,
                            !.calls = <<"resolveSendPolicy">> ]
    : configured \in ConfiguredPolicies }

\* Dispatch that evaluates the session's send-policy override before the
\* commands.
DispatchGateFirst(r) ==
  IF resolveSendPolicy("allow") = "deny"
  THEN { [ Unchanged EXCEPT !.result = SilentDrop, !.sendPolicy = "deny",
                            !.calls = <<"resolveSendPolicy", "logVerbose">> ] }
  ELSE IF resetRequested(r) /\ ~r.isAuthorizedSender THEN Ignoring
  ELSE IF parseActivationCommand(r.body).hasCommand THEN ActivationBranch(r)
  ELSE IF parseSendPolicyCommand(r.body).hasCommand THEN SendPolicyBranch(r)
  ELSE IF restartRequested(r) THEN RestartBranch(r)
  ELSE IF helpRequested(r) THEN HelpBranch(r)
  ELSE IF statusRequested(r) THEN StatusBranch(r)
  ELSE IF compactRequested(r) THEN CompactBranch(r)
  ELSE IF abortRequested(r) THEN AbortBranch(r)
  ELSE SendPolicyGate

\* Dispatch that hands an authorized /reset or /new to the caller at once.
DispatchResetReturnsEarly(r) ==
  IF resetRequested(r) /\ ~r.isAuthorizedSender THEN Ignoring
  ELSE IF resetRequested(r) THEN Returns(Continue, <<>>)
  ELSE IF parseActivationCommand(r.body).hasCommand THEN ActivationBranch(r)
  ELSE IF parseSendPolicyCommand(r.body).hasCommand THEN SendPolicyBranch(r)
  ELSE IF restartRequested(r) THEN RestartBranch(r)
  ELSE IF helpRequested(r) THEN HelpBranch(r)
  ELSE IF statusRequested(r) THEN StatusBranch(r)
  ELSE IF compactRequested(r) THEN CompactBranch(r)
  ELSE IF abortRequested(r) THEN AbortBranch(r)
  ELSE SendPolicyGate

\* Dispatch with the /compact check ahead of the /help check.
DispatchCompactBeforeHelp(r) ==
  IF resetRequested(r) /\ ~r.isAuthorizedSender THEN Ignoring
  ELSE IF parseActivationCommand(r.body).hasCommand THEN ActivationBranch(r)
  ELSE IF parseSendPolicyCommand(r.body).hasCommand THEN SendPolicyBranch(r)
  ELSE IF restartRequested(r) THEN RestartBranch(r)
  ELSE IF compactRequested(r) THEN CompactBranch(r)
  ELSE IF helpRequested(r) THEN HelpBranch(r)
  ELSE IF statusRequested(r) THEN StatusBranch(r)
  ELSE IF abortRequested(r) THEN AbortBranch(r)
  ELSE SendPolicyGate

\* handleCommands up to its return or its first await, for request r.
Dispatch(r) ==
  IF resetRequested(r) /\ ~r.isAuthorizedSender THEN Ignoring
  ELSE IF parseActivationCommand(r.body).hasCommand THEN ActivationBranch(r)
  ELSE IF parseSendPolicyCommand(r.body).hasCommand THEN SendPolicyBranch(r)
  ELSE IF restartRequested(r) THEN RestartBranch(r)
  ELSE IF helpRequested(r) THEN HelpBranch(r)
  ELSE IF statusRequested(r) THEN StatusBranch(r)
  ELSE IF compactRequested(r) THEN CompactBranch(r)
  ELSE IF abortRequested(r) THEN AbortBranch(r)
  ELSE SendPolicyGate

\* A message arrives and handleCommands runs to its return, or to the
\* await of the /compact branch.
HandleCommands ==
  /\ UNCHANGED << controlText, detected >>
  /\ pc = "idle"
  /\ \E r \in Requests :
     \E out \in Dispatch(r) :
       /\ req' = r
       /\ pre' = Snapshot
       /\ result' = out.result
       /\ entry' = out.entry
       /\ sessionStore' = out.sessionStore
       /\ disk' = out.disk
       /\ abortMemory' = out.abortMemory
       /\ run' = out.run
       /\ now' = out.now
       /\ calls' = out.calls
       /\ pc' = out.pc
       /\ sendPolicy' = out.sendPolicy
  /\ UNCHANGED << params, waited, waitOutcome, compactResult, runAtCompact >>

\* ------------------------------------------------- /compact after await
\* The timer of waitForEmbeddedPiRunEnd(sessionId, 15_000) advances.
WaitTimerTick ==
  /\ UNCHANGED << controlText, detected >>
  /\ pc = "waiting"
  /\ waited < WaitTimeoutMs
  /\ waited' = waited + TickMs
  /\ UNCHANGED << params, entry, sessionStore, disk, abortMemory, run, now, pc,
                  req, result, calls, pre, waitOutcome, sendPolicy,
                  compactResult, runAtCompact >>

\* The timeout elapses before the run reported its end: the wait resolves.
WaitTimesOut ==
  /\ UNCHANGED << controlText, detected >>
  /\ pc = "waiting"
  /\ waited >= WaitTimeoutMs
  /\ waitOutcome' = "timeout"
  /\ pc' = "precompact"
  /\ UNCHANGED << params, entry, sessionStore, disk, abortMemory, run, now,
                  req, result, calls, pre, waited, sendPolicy, compactResult,
                  runAtCompact >>

\* The embedded run of the session ends (owned by the execution subsystem);
\* a dispatcher waiting for it is resumed.  A run event while a result
\* waits to be taken is the same event after Return.
RunEnds ==
  /\ UNCHANGED << controlText, detected >>
  /\ pc # "done"
  /\ run # "none"
  /\ run' = "none"
  /\ IF pc = "waiting"
     THEN pc' = "precompact" /\ waitOutcome' = "ended"
     ELSE UNCHANGED << pc, waitOutcome >>
  /\ pre' = IF pc = "idle" THEN [pre EXCEPT !.run = "none"] ELSE pre
  /\ UNCHANGED << params, entry, sessionStore, disk, abortMemory, now, req,
                  result, calls, waited, sendPolicy, compactResult,
                  runAtCompact >>

\* An embedded run starts for the session id of the entry.
RunStarts ==
  /\ UNCHANGED << controlText, detected >>
  /\ pc # "done"
  /\ run = "none"
  /\ params.sessionId
  /\ run' = "active"
  /\ pre' = IF pc = "idle" THEN [pre EXCEPT !.run = "active"] ELSE pre
  /\ UNCHANGED << params, entry, sessionStore, disk, abortMemory, now, pc, req,
                  result, calls, waited, waitOutcome, sendPolicy,
                  compactResult, runAtCompact >>

\* CallCompaction that goes ahead only once the run has stopped.
CallCompactionWhenRunStopped ==
  /\ UNCHANGED << controlText, detected >>
  /\ pc = "precompact"
  /\ run = "none"
  /\ calls' = Append(calls, "compactEmbeddedPiSession")
  /\ runAtCompact' = run
  /\ pc' = "compacting"
  /\ UNCHANGED << params, entry, sessionStore, disk, abortMemory, run, now,
                  req, result, pre, waited, waitOutcome, sendPolicy,
                  compactResult >>

\* compactEmbeddedPiSession({...}) is called.
CallCompaction ==
  /\ UNCHANGED << controlText, detected >>
  /\ pc = "precompact"
  /\ calls' = Append(calls, "compactEmbeddedPiSession")
  /\ runAtCompact' = run
  /\ pc' = "compacting"
  /\ UNCHANGED << params, entry, sessionStore, disk, abortMemory, run, now,
                  req, result, pre, waited, waitOutcome, sendPolicy,
                  compactResult >>

\* What the compaction collaborator reports.
CompactOutcomes ==
  { [ok |-> TRUE, compacted |-> TRUE, tokensBefore |-> TRUE],
    [ok |-> TRUE, compacted |-> TRUE, tokensBefore |-> FALSE],
    [ok |-> TRUE, compacted |-> FALSE, tokensBefore |-> FALSE],
    [ok |-> FALSE, compacted |-> FALSE, tokensBefore |-> FALSE] }

compactLabel(res) ==
  IF res.ok
  THEN IF res.compacted
       THEN IF res.tokensBefore THEN "Compacted (N before)" ELSE "Compacted"
       ELSE "Compaction skipped"
  ELSE "Compaction failed"

CompactKind(res) ==
  IF res.ok THEN (IF res.compacted THEN "compacted" ELSE "skipped") ELSE "failed"

\* incrementCompactionCount({sessionEntry, sessionStore, sessionKey, storePath})
incrementCompactionCount(res) ==
  IF HasSession
  THEN { [ out EXCEPT !.calls = <<"incrementCompactionCount">> \o out.calls ]
         : out \in PutAndSave([entry EXCEPT
                                 !.compactionCount = entry.compactionCount + 1],
                              res) }
  ELSE Returns(res, <<"incrementCompactionCount">>)

\* CompactTail that counts every compaction the collaborator reports ok,
\* a skipped one included.
CompactTailCountsSkipped(res) ==
  LET reply == Reply(compactLabel(res)) IN
  IF res.ok
  THEN incrementCompactionCount(reply)
  ELSE Returns(reply, <<>>)

\* The tail of the /compact branch, from the collaborator's result on.
CompactTail(res) ==
  LET reply == Reply(compactLabel(res)) IN
  IF res.ok /\ res.compacted
  THEN incrementCompactionCount(reply)
  ELSE Returns(reply, <<>>)

CompactionReturns ==
  /\ UNCHANGED << controlText, detected >>
  /\ pc = "compacting"
  /\ \E res \in CompactOutcomes :
       /\ (res.ok /\ res.compacted) => entry.compactionCount < MaxCompactions
       /\ \E out \in CompactTail(res) :
          /\ compactResult' = CompactKind(res)
          /\ result' = out.result
          /\ entry' = out.entry
          /\ sessionStore' = out.sessionStore
          /\ disk' = out.disk
          /\ now' = out.now
          /\ calls' = calls \o out.calls \o <<"enqueueSystemEvent">>
  /\ pc' = "done"
  /\ UNCHANGED << params, abortMemory, run, req, pre, waited, waitOutcome,
                  sendPolicy, runAtCompact >>

\* The caller takes the result; the dispatcher is ready for the next
\* message of the conversation.
Return ==
  /\ UNCHANGED << controlText, detected >>
  /\ pc = "done"
  /\ pc' = "idle"
  /\ req' = NoRequest
  /\ result' = NoResult
  /\ calls' = <<>>
  /\ pre' = Snapshot
  /\ waited' = 0
  /\ waitOutcome' = "none"
  /\ sendPolicy' = "none"
  /\ compactResult' = "none"
  /\ runAtCompact' = "n/a"
  /\ UNCHANGED << params, entry, sessionStore, disk, abortMemory, run, now >>

Next ==
  \/ HandleCommands
  \/ WaitTimerTick
  \/ WaitTimesOut
  \/ RunEnds
  \/ RunStarts
  \/ CallCompaction
  \/ CompactionReturns
  \/ Return

Spec == Init /\ [][Next]_vars

\* ---------------------------------------------------- hasControlCommand
\* Longest text handed to hasControlCommand, in lexemes.
MaxTextLen == 3

\* The lexemes of those texts: every token of CONTROL_COMMAND_RE, two of
\* them in upper case, a slash token that is no command, a word, the
\* blank, the colon and a punctuation mark.
TextLexemes ==
  ControlTokens \cup { "/HELP", "/V", "/foo", "x", " ", ":", "!" }

Texts ==
  UNION { [1..n -> TextLexemes] : n \in 0..MaxTextLen }

\* The upstream caller has a text to examine; the dispatcher is idle.
ControlInit ==
  /\ controlText \in Texts
  /\ detected = {}
  /\ params = [ sessionEntry |-> FALSE, sessionStore |-> FALSE,
                sessionKey |-> FALSE, storePath |-> FALSE,
                sessionId |-> FALSE, from |-> FALSE ]
  /\ entry = NewEntry(params)
  /\ sessionStore = InitialStore(params)
  /\ disk = InitialStore(params)
  /\ abortMemory = {}
  /\ run = "none"
  /\ now = 0
  /\ pc = "idle"
  /\ req = NoRequest
  /\ result = NoResult
  /\ calls = <<>>
  /\ pre = Snapshot
  /\ waited = 0
  /\ waitOutcome = "none"
  /\ sendPolicy = "none"
  /\ compactResult = "none"
  /\ runAtCompact = "n/a"

\* hasControlCommand(text) is called and returns.
HasControlCommand ==
  /\ detected = {}
  /\ detected' = {hasControlCommand(controlText)}
  /\ UNCHANGED << params, entry, sessionStore, disk, abortMemory, run, now, pc,
                  req, result, calls, pre, waited, waitOutcome, sendPolicy,
                  compactResult, runAtCompact, controlText >>

ControlNext == HasControlCommand

ControlSpec == ControlInit /\ [][ControlNext]_vars

\* The dispatcher's continuation after an await runs once the awaited
\* promise resolved; the timer of the wait keeps running and fires, and the
\* compaction collaborator resolves.  Nothing is assumed of the embedded
\* run: it may never report its end.
FairSpec ==
  /\ Spec
  /\ WF_vars(WaitTimerTick)
  /\ WF_vars(WaitTimesOut)
  /\ WF_vars(CallCompaction)
  /\ WF_vars(CompactionReturns)

\* =============================================================== claims
\* The command a request selects, in the priority
\* Reset/New > Activation > SendPolicy > Restart > Help > Status > Compact
\* > Abort > None.
Classify(r) ==
  IF resetRequested(r) THEN "reset"
  ELSE IF parseActivationCommand(r.body).hasCommand THEN "activation"
  ELSE IF parseSendPolicyCommand(r.body).hasCommand THEN "send"
  ELSE IF restartRequested(r) THEN "restart"
  ELSE IF helpRequested(r) THEN "help"
  ELSE IF statusRequested(r) THEN "status"
  ELSE IF compactRequested(r) THEN "compact"
  ELSE IF abortRequested(r) THEN "abort"
  ELSE "none"

\* The dispatch in progress, or just returned, left everything it can
\* write as it found it.
NothingWritten ==
  /\ entry = pre.entry
  /\ sessionStore = pre.sessionStore
  /\ disk = pre.disk
  /\ abortMemory = pre.abortMemory

\* The collaborator calls that act on the world.
EffectCalls ==
  { "triggerClawdbotRestart", "abortEmbeddedPiRun", "waitForEmbeddedPiRunEnd",
    "compactEmbeddedPiSession", "incrementCompactionCount",
    "enqueueSystemEvent", "saveSessionStore", "setAbortMemory" }

CallsMade == { calls[i] : i \in DOMAIN calls }

\* C1: an unauthorized sender (isAuthorizedSender = false) whose first
\* matching command is Reset/New, SendPolicy, Restart, Help, Status or
\* Compact gets exactly {no reply, shouldContinue = false}, and the call
\* writes nothing: entry, store, saved store and abort memory are as before,
\* the run is not cancelled, and no restart, compaction or system event is
\* issued.
C1_UnauthorizedPrivilegedSilentNoop ==
  ( /\ pc # "idle"
    /\ ~req.isAuthorizedSender
    /\ Classify(req) \in {"reset", "send", "restart", "help", "status", "compact"} )
  => /\ pc = "done"
     /\ result = SilentDrop
     /\ NothingWritten
     /\ run = pre.run
     /\ CallsMade \cap EffectCalls = {}

\* An unauthorized /compact arrives while a run of the session is active.
C1_Witness ==
  /\ pc = "done"
  /\ ~req.isAuthorizedSender
  /\ Classify(req) = "compact"
  /\ entry.sessionId = SessionId
  /\ run = "active"
  /\ result = SilentDrop

\* The sender identity is one of the owners, after normalization.
SenderIsOwner(r) ==
  /\ r.senderE164 # <<>>
  /\ \E i \in DOMAIN r.ownerList : r.ownerList[i] = normalizeE164(r.senderE164)

\* The authorization /activation asks for in a group: isAuthorizedSender
\* and, on an owner-scoped surface with a non-empty owner list, an owner.
ActivationAuthorized(r) ==
  /\ r.isAuthorizedSender
  /\ (r.isWhatsAppSurface /\ r.ownerList # <<>>) => SenderIsOwner(r)

\* C2: in a group, /activation is accepted (a reply: confirmation or usage)
\* exactly when the sender is authorized and, on an owner-scoped surface
\* with a non-empty owner list, is an owner; otherwise the result is
\* {no reply, shouldContinue = false} and nothing is written.
C2_ActivationAuthorization ==
  ( /\ pc # "idle"
    /\ Classify(req) = "activation"
    /\ req.isGroup )
  => /\ pc = "done"
     /\ ActivationAuthorized(req) =>
          /\ result.reply # Undefined
          /\ ~result.shouldContinue
     /\ ~ActivationAuthorized(req) =>
          /\ result = SilentDrop
          /\ NothingWritten

\* An authorized sender who is not an owner is turned away on an
\* owner-scoped surface.
C2_Witness ==
  /\ pc = "done"
  /\ Classify(req) = "activation"
  /\ req.isGroup
  /\ req.isAuthorizedSender
  /\ req.isWhatsAppSurface
  /\ req.ownerList # <<>>
  /\ req.senderE164 # <<>>
  /\ ~SenderIsOwner(req)
  /\ parseActivationCommand(req.body).mode = "mention"
  /\ result = SilentDrop

\* C3: /activation outside a group is answered "Group activation only
\* applies to group chats." with shouldContinue = false for every sender,
\* with or without a mode, and nothing is written.
C3_ActivationOutsideGroup ==
  ( /\ pc # "idle"
    /\ Classify(req) = "activation"
    /\ ~req.isGroup )
  => /\ pc = "done"
     /\ result = Reply("Group activation only applies to group chats.")
     /\ NothingWritten

\* An unauthorized sender names a mode outside a group.
C3_Witness ==
  /\ pc = "done"
  /\ Classify(req) = "activation"
  /\ ~req.isGroup
  /\ ~req.isAuthorizedSender
  /\ parseActivationCommand(req.body).mode = "always"
  /\ result.reply = "Group activation only applies to group chats."

\* The mode a request's /activation command names, or Undefined.
ActivationMode(r) == parseActivationCommand(r.body).mode

\* An /activation with a mode, in a group, from a sender who passes its
\* authorization.
ActivationModeAccepted ==
  /\ pc = "done"
  /\ Classify(req) = "activation"
  /\ req.isGroup
  /\ ActivationAuthorized(req)
  /\ ActivationMode(req) \in {"mention", "always"}

ActivationSetReplies ==
  { "Group activation set to mention.", "Group activation set to always." }

\* C4 as stated: with a session entry supplied, an accepted /activation M
\* leaves groupActivation = M and groupActivationNeedsSystemIntro = true
\* and replies naming M; and whenever "Group activation set to M" is
\* returned the session entry holds groupActivation = M.
C4_Original ==
  /\ (ActivationModeAccepted /\ params.sessionEntry) =>
       /\ entry.groupActivation = ActivationMode(req)
       /\ entry.groupActivationNeedsSystemIntro
       /\ result = Reply("Group activation set to " \o ActivationMode(req) \o ".")
  /\ (pc = "done" /\ result.reply \in ActivationSetReplies) =>
       /\ params.sessionEntry
       /\ result.reply = "Group activation set to " \o entry.groupActivation \o "."

\* C4 (amended): the same, when session entry, session store and session
\* key are all supplied: the entry, and the store under the session key,
\* hold groupActivation = M and groupActivationNeedsSystemIntro = true, and
\* the reply names M with shouldContinue = false; whenever the reply "Group
\* activation set to M" is returned with all three supplied, the entry
\* holds M.  Without one of them the reply is the same and nothing is
\* written.
C4_ActivationModeSet ==
  /\ ActivationModeAccepted =>
       /\ result = Reply("Group activation set to " \o ActivationMode(req) \o ".")
       /\ HasSession =>
            /\ entry.groupActivation = ActivationMode(req)
            /\ entry.groupActivationNeedsSystemIntro
            /\ sessionStore[SessionKey] = entry
       /\ ~HasSession => NothingWritten
  /\ (pc = "done" /\ result.reply \in ActivationSetReplies /\ HasSession) =>
       /\ ActivationModeAccepted
       /\ entry.groupActivation = ActivationMode(req)

\* "/Activation ALWAYS" moves a session from mention to always.
C4_Witness ==
  /\ ActivationModeAccepted
  /\ HasSession
  /\ req.body = <<"/Activation", " ", "ALWAYS">>
  /\ pre.entry.groupActivation = "mention"
  /\ entry.groupActivation = "always"
  /\ entry.groupActivationNeedsSystemIntro
  /\ result.reply = "Group activation set to always."

\* The mode a request's /send command names, or Undefined.
SendMode(r) == parseSendPolicyCommand(r.body).mode

\* C5: a recognized command whose argument is missing or not recognized,
\* from a sender who passes its authorization (/activation in a group,
\* /send), gets the usage reply with shouldContinue = false; the entry
\* (updatedAt included), the store and the saved store are unchanged, and
\* the message is not handled as "no command" (the send-policy gate is not
\* evaluated and the caller is not told to continue).
C5_MissingArgumentUsage ==
  /\ ( /\ pc # "idle"
       /\ Classify(req) = "activation"
       /\ req.isGroup
       /\ ActivationAuthorized(req)
       /\ ActivationMode(req) = Undefined )
     => /\ pc = "done"
        /\ result = Reply("Usage: /activation mention|always")
        /\ NothingWritten
        /\ sendPolicy = "none"
  /\ ( /\ pc # "idle"
       /\ Classify(req) = "send"
       /\ req.isAuthorizedSender
       /\ SendMode(req) = Undefined )
     => /\ pc = "done"
        /\ result = Reply("Usage: /send on|off|inherit")
        /\ NothingWritten
        /\ sendPolicy = "none"

\* "/activation bogus" in a group whose session already has a mode, at a
\* time when a mutation would have moved updatedAt.
C5_Witness ==
  /\ pc = "done"
  /\ req.body = <<"/activation", " ", "bogus">>
  /\ req.isGroup
  /\ ActivationAuthorized(req)
  /\ HasSession
  /\ entry.groupActivation = "always"
  /\ result.reply = "Usage: /activation mention|always"

\* What an accepted /send leaves in sendPolicy.
SendEffect(mode) == IF mode = "inherit" THEN Undefined ELSE mode

\* An authorized /send with a mode.
SendModeAccepted ==
  /\ pc = "done"
  /\ Classify(req) = "send"
  /\ req.isAuthorizedSender
  /\ SendMode(req) \in {"allow", "deny", "inherit"}

\* C6 as stated: for an authorized sender with a session entry supplied,
\* /send sets sendPolicy to allow or deny, or removes it for inherit.
C6_Original ==
  (SendModeAccepted /\ params.sessionEntry) =>
     entry.sendPolicy = SendEffect(SendMode(req))

\* C6 (amended): for an authorized sender, with session entry, session
\* store and session key all supplied, /send allow|deny sets sendPolicy to
\* that mode and /send inherit removes it; sendPolicy is always absent,
\* "allow" or "deny", never "inherit"; a dispatch that is not an accepted
\* /send leaves it as it was, so it equals the effect of the last accepted
\* /send; the reply label is on, off or inherit.  Without one of the three
\* the reply is the same and nothing is written.
C6_SendPolicySet ==
  /\ entry.sendPolicy \in {Undefined, "allow", "deny"}
  /\ SendModeAccepted =>
       /\ result = Reply("Send policy set to "
                           \o (CASE SendMode(req) = "allow" -> "on"
                                 [] SendMode(req) = "deny" -> "off"
                                 [] SendMode(req) = "inherit" -> "inherit")
                           \o ".")
       /\ HasSession =>
            /\ entry.sendPolicy = SendEffect(SendMode(req))
            /\ sessionStore[SessionKey] = entry
       /\ ~HasSession => NothingWritten
  /\ ~SendModeAccepted => entry.sendPolicy = pre.entry.sendPolicy

\* "/send inherit" removes a deny override.
C6_Witness ==
  /\ SendModeAccepted
  /\ HasSession
  /\ SendMode(req) = "inherit"
  /\ pre.entry.sendPolicy = "deny"
  /\ entry.sendPolicy = Undefined
  /\ result.reply = "Send policy set to inherit."

\* The sender passes the authorization of the command the request selects.
CommandAuthorized(r) ==
  IF Classify(r) = "activation" /\ r.isGroup
  THEN ActivationAuthorized(r)
  ELSE r.isAuthorizedSender

\* C7: no result has a reply together with shouldContinue = true; a
\* result is (reply, false), (no reply, true) or (no reply, false), and the
\* last is returned only to a sender who fails the command's authorization
\* or when the ambient send-policy decision is deny.
C7_ResultShapes ==
  pc = "done" =>
    /\ ~(result.reply # Undefined /\ result.shouldContinue)
    /\ result \in { Reply(result.reply), Continue, SilentDrop }
    /\ result = SilentDrop =>
         \/ ~CommandAuthorized(req) /\ Classify(req) \notin {"abort", "none"}
         \/ sendPolicy = "deny"

\* An authorized sender's ordinary message is dropped by a deny override.
C7_Witness ==
  /\ pc = "done"
  /\ req.body = <<"hello">>
  /\ req.isAuthorizedSender
  /\ entry.sendPolicy = "deny"
  /\ sendPolicy = "deny"
  /\ result = SilentDrop

\* An authorized /compact is being dispatched, or has just returned.
CompactDispatched ==
  /\ pc # "idle"
  /\ Classify(req) = "compact"
  /\ req.isAuthorizedSender

\* The session entry is supplied and carries a sessionId.
HasSessionId == params.sessionEntry /\ entry.sessionId # Undefined

\* C8: an authorized /compact without a session entry, or with an entry
\* that has no sessionId, is answered "Compaction unavailable (missing
\* session id)." with shouldContinue = false at once: no collaborator is
\* called (no run-active check, no cancellation, no wait, no compaction, no
\* system event), the run is untouched and nothing is written
\* (compactionCount included).
C8_CompactWithoutSessionId ==
  (CompactDispatched /\ ~HasSessionId) =>
     /\ pc = "done"
     /\ result = Reply("Compaction unavailable (missing session id).")
     /\ calls = <<>>
     /\ run = pre.run
     /\ waitOutcome = "none"
     /\ compactResult = "none"
     /\ runAtCompact = "n/a"
     /\ NothingWritten
     /\ entry.compactionCount = pre.entry.compactionCount

\* A session entry without sessionId, with store and key supplied.
C8_Witness ==
  /\ CompactDispatched
  /\ pc = "done"
  /\ HasSession
  /\ ~HasSessionId
  /\ result.reply = "Compaction unavailable (missing session id)."

\* The calls of the dispatch begin with the sequence `prefix`.
CallsBeginWith(prefix) ==
  /\ Len(calls) >= Len(prefix)
  /\ SubSeq(calls, 1, Len(prefix)) = prefix

CompactionCalled == "compactEmbeddedPiSession" \in CallsMade

\* C9: an authorized /compact on an entry with a sessionId.  With a run
\* active: cancellation is signalled, then the wait begins, and the wait
\* lasts until the run reports its end or 15000 ms have elapsed; the
\* compaction collaborator is called only after the wait resolved, and
\* after a timeout it is called all the same (the dispatcher's next step).
\* With no run active: no cancellation, no wait, and the collaborator is
\* called next.
C9_CancelWaitThenCompact ==
  (CompactDispatched /\ HasSessionId) =>
     IF pre.run # "none"
     THEN /\ CallsBeginWith(<<"isEmbeddedPiRunActive", "abortEmbeddedPiRun",
                             "waitForEmbeddedPiRunEnd">>)
          /\ pc = "waiting" <=> waitOutcome = "none"
          /\ pc = "waiting" => (run = "aborting" /\ waited <= WaitTimeoutMs + TickMs)
          /\ waitOutcome = "timeout" => waited >= WaitTimeoutMs
          /\ CompactionCalled =>
               /\ waitOutcome \in {"ended", "timeout"}
               /\ CallsBeginWith(<<"isEmbeddedPiRunActive", "abortEmbeddedPiRun",
                                   "waitForEmbeddedPiRunEnd",
                                   "compactEmbeddedPiSession">>)
          /\ (waitOutcome # "none" /\ ~CompactionCalled) => pc = "precompact"
     ELSE /\ CallsBeginWith(<<"isEmbeddedPiRunActive">>)
          /\ "abortEmbeddedPiRun" \notin CallsMade
          /\ "waitForEmbeddedPiRunEnd" \notin CallsMade
          /\ waitOutcome = "none" /\ waited = 0
          /\ pc \in {"precompact", "compacting", "done"}
          /\ CompactionCalled <=> pc # "precompact"

\* The run did not stop: the wait timed out and the collaborator was
\* called after it.
C9_Witness ==
  /\ CompactDispatched
  /\ pre.run = "active"
  /\ waitOutcome = "timeout"
  /\ waited >= WaitTimeoutMs
  /\ calls = <<"isEmbeddedPiRunActive", "abortEmbeddedPiRun",
               "waitForEmbeddedPiRunEnd", "compactEmbeddedPiSession">>
  /\ pc = "compacting"

\* C10 as stated: whenever the compaction collaborator is called, no run
\* of the session is active at that moment.
C10_Original == runAtCompact \in {"n/a", "none"}

\* C10 (amended): whenever the compaction collaborator is called, a run
\* that was active when the dispatcher checked has been signalled to
\* cancel and the wait for it has resolved; that run is still active at
\* the call only when the wait ended by the 15000 ms timeout.  When no run
\* was active at the check, none was cancelled or awaited.  (A run can be
\* active at the call: one that outlived the timeout, or one started after
\* the check.)
C10_CompactAfterCoordination ==
  runAtCompact # "n/a" =>
     /\ CompactDispatched /\ HasSessionId
     /\ pre.run # "none" =>
          /\ "abortEmbeddedPiRun" \in CallsMade
          /\ waitOutcome \in {"ended", "timeout"}
     /\ pre.run = "none" => waitOutcome = "none"
     /\ runAtCompact = "aborting" =>
          /\ pre.run # "none"
          /\ waitOutcome = "timeout"
          /\ waited >= WaitTimeoutMs

\* The collaborator is called while the cancelled run is still active.
C10_Witness ==
  /\ pc = "compacting"
  /\ runAtCompact = "aborting"
  /\ run = "aborting"
  /\ waitOutcome = "timeout"

\* The replies of the /compact branch after the collaborator's result.
CompactReplies ==
  { "Compacted (N before)", "Compacted", "Compaction skipped",
    "Compaction failed" }

\* C11: an authorized /compact dispatch terminates with a reply: under
\* fairness of the timer (and of the dispatcher's own continuation) every
\* such dispatch reaches its return with a reply, even when the run never
\* reports its end; and a wait that ended by timeout is not reported as a
\* failure: the reply says "Compaction failed" only when the collaborator
\* reported a failure.
C11_CompactTerminatesWithReply ==
  /\ CompactDispatched ~> (CompactDispatched /\ pc = "done" /\ result.reply # Undefined)
  /\ [](( CompactDispatched /\ pc = "done" /\ waitOutcome = "timeout" ) =>
          /\ result.reply \in CompactReplies
          /\ ~result.shouldContinue
          /\ result.reply = "Compaction failed" <=> compactResult = "failed")

\* The run never stopped, the wait timed out, and the dispatch ended with
\* the reply of a compaction that took place.
C11_Witness ==
  /\ CompactDispatched
  /\ pc = "done"
  /\ pre.run = "active"
  /\ run = "aborting"
  /\ waitOutcome = "timeout"
  /\ compactResult = "compacted"
  /\ result.reply = "Compacted"

\* A mutating command was accepted and mutated the in-memory entry:
\* /activation with a mode, /send with a mode, the abort trigger, or a
\* /compact whose compaction took place, with session entry, store and key.
MutationApplied ==
  /\ pc = "done"
  /\ HasSession
  /\ \/ ActivationModeAccepted
     \/ SendModeAccepted
     \/ Classify(req) = "abort"
     \/ (CompactDispatched /\ compactResult = "compacted")

\* C12 as stated: when a mutating command returns, the saved store holds
\* the mutated entry, whatever parameters were supplied; a reload gives the
\* in-memory entries.
C12_Original ==
  MutationApplied =>
     /\ SessionKey \in DOMAIN disk
     /\ disk[SessionKey] = entry
     /\ disk = sessionStore

\* C12 (amended): when a store path is supplied, at the return of every
\* mutating command the store has been saved after the mutation and the
\* saved store equals the in-memory store, mutated entry included; so at
\* any time between dispatches a reload gives the entries last set.
\* Without a store path the in-memory entry and store are mutated and
\* nothing is ever saved.
C12_PersistedBeforeReply ==
  /\ (MutationApplied /\ params.storePath) =>
       /\ "saveSessionStore" \in CallsMade
       /\ disk[SessionKey] = entry
       /\ sessionStore[SessionKey] = entry
  /\ params.storePath => disk = sessionStore
  /\ ~params.storePath =>
       /\ disk = InitialStore(params)
       /\ "saveSessionStore" \notin CallsMade

\* The abort trigger sets abortedLastRun in a session whose saved entry
\* did not have it, and the saved entry has it at the return.
C12_Witness ==
  /\ MutationApplied
  /\ params.storePath
  /\ Classify(req) = "abort"
  /\ ~pre.disk[SessionKey].abortedLastRun
  /\ disk[SessionKey].abortedLastRun
  /\ disk[SessionKey].groupActivation = "mention"
  /\ disk[SessionKey].sendPolicy = "deny"

\* C13: the abort trigger has no authorization gate.  For every sender, a
\* message that matches the abort trigger and no command of higher
\* priority is answered "Agent was aborted." with shouldContinue = false.
\* With session entry, store and key the entry ends with abortedLastRun =
\* true (nothing else changes but updatedAt); otherwise, with an abort key,
\* the abort memory of that key is set and the entry is untouched.  A
\* second abort gives the same reply and the same state apart from
\* updatedAt.
C13_AbortUngatedIdempotent ==
  ( pc # "idle" /\ Classify(req) = "abort" ) =>
     /\ pc = "done"
     /\ result = Reply("Agent was aborted.")
     /\ IF HasSession
        THEN /\ entry.abortedLastRun
             /\ entry = [pre.entry EXCEPT !.abortedLastRun = TRUE,
                                          !.updatedAt = entry.updatedAt]
             /\ sessionStore = StorePut(pre.sessionStore, SessionKey, entry)
             /\ abortMemory = pre.abortMemory
             /\ pre.entry.abortedLastRun =>
                  entry = [pre.entry EXCEPT !.updatedAt = entry.updatedAt]
        ELSE /\ entry = pre.entry
             /\ sessionStore = pre.sessionStore
             /\ disk = pre.disk
             /\ abortMemory =
                  IF abortKey # Undefined
                  THEN pre.abortMemory \cup {abortKey}
                  ELSE pre.abortMemory

\* An unauthorized sender aborts a session that was already aborted, at a
\* later time.
C13_Witness ==
  /\ pc = "done"
  /\ Classify(req) = "abort"
  /\ ~req.isAuthorizedSender
  /\ HasSession
  /\ pre.entry.abortedLastRun
  /\ entry.abortedLastRun
  /\ entry.updatedAt > pre.entry.updatedAt
  /\ result.reply = "Agent was aborted."

\* The commands whose trigger a request satisfies.
Triggers(r) ==
  { c \in { "reset", "activation", "send", "restart", "help", "status",
            "compact", "abort" } :
      CASE c = "reset" -> resetRequested(r)
        [] c = "activation" -> parseActivationCommand(r.body).hasCommand
        [] c = "send" -> parseSendPolicyCommand(r.body).hasCommand
        [] c = "restart" -> restartRequested(r)
        [] c = "help" -> helpRequested(r)
        [] c = "status" -> statusRequested(r)
        [] c = "compact" -> compactRequested(r)
        [] c = "abort" -> abortRequested(r) }

\* The priority of the commands: a smaller number comes first.
Priority(c) ==
  CASE c = "reset" -> 1 [] c = "activation" -> 2 [] c = "send" -> 3
    [] c = "restart" -> 4 [] c = "help" -> 5 [] c = "status" -> 6
    [] c = "compact" -> 7 [] c = "abort" -> 8

\* The first of a non-empty set of commands in the priority, "none" for
\* the empty set.
FirstOf(cmds) ==
  IF cmds = {} THEN "none"
  ELSE CHOOSE c \in cmds : \A d \in cmds : Priority(c) <= Priority(d)

\* The replies each command gives.
RepliesOf(c) ==
  CASE c = "activation" ->
         { "Group activation only applies to group chats.",
           "Usage: /activation mention|always" } \cup ActivationSetReplies
    [] c = "send" ->
         { "Usage: /send on|off|inherit", "Send policy set to on.",
           "Send policy set to off.", "Send policy set to inherit." }
    [] c = "restart" -> { "Restarting clawdbot" }
    [] c = "help" -> { "<help message>" }
    [] c = "status" -> { "<status message>" }
    [] c = "compact" ->
         CompactReplies \cup { "Compaction unavailable (missing session id)." }
    [] c = "abort" -> { "Agent was aborted." }
    [] OTHER -> {}

\* The collaborators each command may call.
CallsOf(c) ==
  CASE c = "activation" -> { "saveSessionStore" }
    [] c = "send" -> { "saveSessionStore" }
    [] c = "restart" -> { "triggerClawdbotRestart" }
    [] c = "help" -> { "buildHelpMessage" }
    [] c = "status" -> { "buildStatusMessage" }
    [] c = "compact" ->
         { "isEmbeddedPiRunActive", "abortEmbeddedPiRun",
           "waitForEmbeddedPiRunEnd", "compactEmbeddedPiSession",
           "incrementCompactionCount", "saveSessionStore",
           "enqueueSystemEvent" }
    [] c = "abort" -> { "saveSessionStore", "setAbortMemory" }
    [] c = "none" -> { "resolveSendPolicy", "logVerbose" }
    [] OTHER -> {}

\* The entry differs from the one the dispatch found at most in the
\* fields command c writes (and updatedAt, when it writes).
EntryFrame(c) ==
  CASE c = "activation" ->
         entry = [pre.entry EXCEPT
                    !.groupActivation = entry.groupActivation,
                    !.groupActivationNeedsSystemIntro =
                       entry.groupActivationNeedsSystemIntro,
                    !.updatedAt = entry.updatedAt]
    [] c = "send" ->
         entry = [pre.entry EXCEPT !.sendPolicy = entry.sendPolicy,
                                   !.updatedAt = entry.updatedAt]
    [] c = "compact" ->
         entry = [pre.entry EXCEPT !.compactionCount = entry.compactionCount,
                                   !.updatedAt = entry.updatedAt]
    [] c = "abort" ->
         entry = [pre.entry EXCEPT !.abortedLastRun = entry.abortedLastRun,
                                   !.updatedAt = entry.updatedAt]
    [] OTHER -> entry = pre.entry /\ sessionStore = pre.sessionStore

\* Command c, and no other, acted in the dispatch in progress or just
\* returned: the reply is one of c's, only c's collaborators were called,
\* only c's fields were written; the run is signalled only by /compact and
\* the abort memory written only by the abort trigger.
AppliedAlone(c) ==
  /\ c # "compact" => pc = "done"
  /\ pc = "done" => result.reply \in RepliesOf(c) /\ ~result.shouldContinue
  /\ CallsMade \subseteq CallsOf(c)
  /\ EntryFrame(c)
  /\ c # "abort" => abortMemory = pre.abortMemory
  /\ c # "compact" => run = pre.run
  /\ sendPolicy = "none"

\* The sender fails the authorization of the command the request selects.
TurnedAway ==
  /\ pc = "done"
  /\ result = SilentDrop
  /\ calls = <<"logVerbose">>
  /\ NothingWritten
  /\ run = pre.run
  /\ sendPolicy = "none"

\* Commands with an authorization check that the sender of r fails.
FailsAuthorization(r, c) ==
  CASE c = "abort" -> FALSE
    [] c = "activation" -> r.isGroup /\ ~ActivationAuthorized(r)
    [] OTHER -> ~r.isAuthorizedSender

\* C14 as stated: the first command of the priority Reset/New > Activation
\* > SendPolicy > Restart > Help > Status > Compact > Abort whose trigger
\* the message satisfies is the only one applied: its authorization check
\* decides, its handler alone replies and writes; for Reset/New, which
\* this core hands to the caller, no handler replies or writes.
C14_Original ==
  LET c == FirstOf(Triggers(req)) IN
  ( pc # "idle" /\ c # "none" ) =>
     IF FailsAuthorization(req, c) THEN TurnedAway
     ELSE IF c = "reset"
     THEN /\ pc = "done"
          /\ result.reply = Undefined
          /\ NothingWritten
          /\ CallsMade \cap EffectCalls = {}
     ELSE AppliedAlone(c)

\* The command handleCommands applies: an authorized Reset/New selects
\* nothing here, and the message goes on to the commands after it.
AppliedCommand(r) ==
  IF resetRequested(r) /\ r.isAuthorizedSender
  THEN FirstOf(Triggers(r) \ {"reset"})
  ELSE FirstOf(Triggers(r))

\* The message was treated as no command: the ambient send policy decided.
GateDecided ==
  /\ pc = "done"
  /\ sendPolicy \in {"allow", "deny"}
  /\ result = IF sendPolicy = "deny" THEN SilentDrop ELSE Continue
  /\ CallsMade \subseteq CallsOf("none")
  /\ NothingWritten
  /\ run = pre.run

\* C14 (amended): among Activation > SendPolicy > Restart > Help > Status
\* > Compact > Abort the first command whose trigger matches is the only
\* one applied: its authorization check decides, its handler alone replies
\* and writes.  Reset/New comes first only for an unauthorized sender, who
\* is turned away whatever else the message matches; an authorized
\* Reset/New applies nothing here and the message goes on through the same
\* chain: with the status directive flag the Status handler replies,
\* otherwise the ambient send policy decides.
C14_FirstMatchApplied ==
  LET c == AppliedCommand(req) IN
  pc # "idle" =>
     IF c = "none" THEN GateDecided
     ELSE IF FailsAuthorization(req, c) THEN TurnedAway
     ELSE AppliedAlone(c)

\* "/compact /help" with the status directive flag satisfies Help, Status
\* and Compact: Help answers, and the active run of the session is not
\* signalled.
C14_Witness ==
  /\ pc = "done"
  /\ Triggers(req) = {"help", "status", "compact"}
  /\ req.isAuthorizedSender
  /\ HasSessionId
  /\ run = "active"
  /\ result = Reply("<help message>")
  /\ calls = <<"buildHelpMessage">>

\* C15: when no command trigger matches, the ambient send-policy decision
\* is evaluated: deny gives {no reply, shouldContinue = false}, anything
\* else {no reply, shouldContinue = true}, and entry, store, saved store
\* and abort memory are unchanged either way.  shouldContinue = true is
\* returned only from this evaluation, with a decision that is not deny.
C15_AmbientGate ==
  /\ ( pc # "idle" /\ Triggers(req) = {} ) =>
       /\ pc = "done"
       /\ "resolveSendPolicy" \in CallsMade
       /\ sendPolicy \in {"allow", "deny"}
       /\ sendPolicy = "deny" => result = SilentDrop
       /\ sendPolicy # "deny" => result = Continue
       /\ NothingWritten
  /\ ( pc = "done" /\ result.shouldContinue ) =>
       /\ result = Continue
       /\ "resolveSendPolicy" \in CallsMade
       /\ sendPolicy \notin {"none", "deny"}
       /\ NothingWritten

\* "@bot stop" from an unauthorized sender matches no trigger; the session
\* has no override, the configuration allows, and the caller goes on.
C15_Witness ==
  /\ pc = "done"
  /\ Triggers(req) = {}
  /\ req.rawBody = Mentioned(<<"stop">>)
  /\ ~req.isAuthorizedSender
  /\ HasSession
  /\ entry.sendPolicy = Undefined
  /\ entry.groupActivation = "always"
  /\ sendPolicy = "allow"
  /\ result = Continue

\* A field of the session entry other than updatedAt differs from what
\* the dispatch found.
FieldChanged ==
  [entry EXCEPT !.updatedAt = 0] # [pre.entry EXCEPT !.updatedAt = 0]

\* C16 as stated: a dispatch that changes a field of the entry sets
\* updatedAt to the time of the mutation, and a dispatch that changes no
\* field leaves updatedAt as it was.
C16_Original ==
  pc = "done" =>
     /\ FieldChanged => entry.updatedAt = now
     /\ ~FieldChanged => entry.updatedAt = pre.entry.updatedAt

\* C16 (amended): every dispatch that changes a field of the entry is a
\* mutating command applied with entry, store and key; every such command
\* sets updatedAt to the time of the mutation (Date.now()), also when the
\* values it writes are the ones already there; a dispatch that applies no
\* mutating command leaves the entry, updatedAt included, unchanged.  With
\* a clock that does not go back, updatedAt of each entry never decreases.
C16_UpdatedAtFollowsMutation ==
  /\ []( /\ FieldChanged => MutationApplied
         /\ MutationApplied =>
              /\ entry.updatedAt = now
              /\ sessionStore[SessionKey].updatedAt = now
         /\ ~MutationApplied => entry = pre.entry
         /\ entry.updatedAt <= now )
  /\ [][ /\ entry'.updatedAt >= entry.updatedAt
         /\ \A k \in DOMAIN sessionStore :
              /\ k \in DOMAIN sessionStore'
              /\ sessionStore'[k].updatedAt >= sessionStore[k].updatedAt
         /\ \A k \in DOMAIN disk :
              /\ k \in DOMAIN disk'
              /\ disk'[k].updatedAt >= disk[k].updatedAt ]_vars

\* "/send off" at a later time than the entry's last update.
C16_Witness ==
  /\ MutationApplied
  /\ SendModeAccepted
  /\ pre.entry.sendPolicy = "allow"
  /\ entry.sendPolicy = "deny"
  /\ pre.entry.updatedAt < now
  /\ entry.updatedAt = now

\* How many times a collaborator was called in the dispatch.
TimesCalled(name) == Cardinality({ i \in DOMAIN calls : calls[i] = name })

\* An authorized /compact returned after the collaborator reported.
CompactCompleted ==
  /\ CompactDispatched
  /\ pc = "done"
  /\ compactResult # "none"

ResetDispatched ==
  /\ pc # "idle"
  /\ resetRequested(req)
  /\ req.isAuthorizedSender

\* C18 as stated: for /reset or /new from an authorized sender
\* handleCommands writes nothing, gives no reply and returns
\* shouldContinue = true, whatever the status directive flag and the
\* ambient send policy.
C18_Original ==
  ResetDispatched =>
     /\ pc = "done"
     /\ result = Continue
     /\ NothingWritten

\* C18 (amended): for /reset or /new from an authorized sender
\* handleCommands writes nothing and signals no run.  With the status
\* directive flag the status reply is returned with shouldContinue =
\* false; without it there is no reply and the ambient send policy
\* decides: shouldContinue = true unless the decision is deny, and then
\* {no reply, shouldContinue = false}.
C18_ResetFallsThrough ==
  ResetDispatched =>
     /\ pc = "done"
     /\ NothingWritten
     /\ run = pre.run
     /\ CallsMade \cap EffectCalls = {}
     /\ IF req.hasStatusDirective
        THEN /\ result = Reply("<status message>")
             /\ sendPolicy = "none"
        ELSE /\ sendPolicy \in {"allow", "deny"}
             /\ result = IF sendPolicy = "deny" THEN SilentDrop ELSE Continue

\* An authorized /new in a session whose override is deny is dropped.
C18_Witness ==
  /\ ResetDispatched
  /\ req.body = <<"/new">>
  /\ ~req.hasStatusDirective
  /\ HasSession
  /\ entry.sendPolicy = "deny"
  /\ result = SilentDrop
  /\ calls = <<"resolveSendPolicy", "logVerbose">>

\* The request that carries a text as its body, with no status directive.
RequestOf(body) == [NoRequest EXCEPT !.body = body, !.rawBody = body]

\* The slash commands handleCommands recognizes in a body by its text.
SlashCommandsIn(body) ==
  Triggers(RequestOf(body)) \ {"abort"}

SynonymTokens ==
  { "/thinking", "/think", "/t", "/verbose", "/v", "/elevated", "/elev",
    "/model", "/queue" }

\* A synonym token, in any case, after the start or a blank and before the
\* end, a blank or a colon.
SynonymIn(body) ==
  \E i \in DOMAIN body :
    /\ LowerLexeme(body[i]) \in SynonymTokens
    /\ (i = 1 \/ body[i - 1] = " ")
    /\ (i = Len(body) \/ body[i + 1] \in {" ", ":"})

\* The text has no slash token at all.
NoSlashToken(body) ==
  \A i \in DOMAIN body : body[i] \in {"x", " ", ":", "!"}

\* C19: hasControlCommand is a superset of the dispatcher's recognition of
\* slash commands: it returns true for every body handleCommands treats as
\* Reset/New, Activation, SendPolicy, Restart, Help, Status (by text) or
\* Compact; it returns true for the synonym tokens, in any case, after the
\* start or a blank and before the end, a blank or a colon; and false for
\* a text without such a token.
C19_ControlCommandSuperset ==
  detected # {} =>
     /\ SlashCommandsIn(controlText) # {} => detected = {TRUE}
     /\ SynonymIn(controlText) => detected = {TRUE}
     /\ NoSlashToken(controlText) => detected = {FALSE}

\* C20 as stated: the ambient send-policy gate is never applied to a
\* matched command: a command from a sender who passes its authorization
\* is answered without the gate being evaluated, and an authorized /send
\* on or /send inherit changes sendPolicy.
C20_Original ==
  /\ ( /\ pc # "idle"
       /\ Triggers(req) # {}
       /\ ~FailsAuthorization(req, FirstOf(Triggers(req))) ) =>
       /\ sendPolicy = "none"
       /\ pc = "done" => result.reply # Undefined
  /\ ( SendModeAccepted /\ SendMode(req) \in {"allow", "inherit"} ) =>
       entry.sendPolicy = SendEffect(SendMode(req))

\* An authorized /send with the given argument, as the next message.
SendRequest(arg) ==
  [ NoRequest EXCEPT !.body = <<"/send", " ", arg>>,
                     !.rawBody = <<"/send", " ", arg>>,
                     !.isAuthorizedSender = TRUE ]

\* C20 (amended): the ambient send-policy gate is never applied to a
\* command that handleCommands applies (Activation, SendPolicy, Restart,
\* Help, Status, Compact, Abort): in every reachable state, sendPolicy =
\* deny included, such a command from a sender who passes its
\* authorization is answered and the gate is not evaluated (an authorized
\* /reset or /new is not applied here and does reach the gate).  With
\* session entry, store and key supplied, whenever the dispatcher is idle
\* an authorized /send on or /send inherit would be accepted and change
\* sendPolicy, and one dispatched in a session whose override is deny
\* leaves it allow or absent.
C20_CommandsBypassGate ==
  /\ ( /\ pc # "idle"
       /\ AppliedCommand(req) # "none"
       /\ ~FailsAuthorization(req, AppliedCommand(req)) ) =>
       /\ sendPolicy = "none"
       /\ "resolveSendPolicy" \notin CallsMade
       /\ pc = "done" => (result.reply # Undefined /\ ~result.shouldContinue)
  /\ ( pc = "idle" /\ HasSession ) =>
       /\ Dispatch(SendRequest("on")) # {}
       /\ \A out \in Dispatch(SendRequest("on")) :
            /\ out.result = Reply("Send policy set to on.")
            /\ out.entry.sendPolicy = "allow"
            /\ out.sessionStore[SessionKey].sendPolicy = "allow"
       /\ Dispatch(SendRequest("inherit")) # {}
       /\ \A out \in Dispatch(SendRequest("inherit")) :
            /\ out.result = Reply("Send policy set to inherit.")
            /\ out.entry.sendPolicy = Undefined
  /\ ( /\ SendModeAccepted
       /\ HasSession
       /\ SendMode(req) \in {"allow", "inherit"} ) =>
       entry.sendPolicy = SendEffect(SendMode(req))

\* "/send on" brings a session back from deny.
C20_Witness ==
  /\ SendModeAccepted
  /\ HasSession
  /\ SendMode(req) = "allow"
  /\ pre.entry.sendPolicy = "deny"
  /\ entry.sendPolicy = "allow"
  /\ sendPolicy = "none"
  /\ result = Reply("Send policy set to on.")

====
